---------------------------- MODULE Spec2Model ----------------------------
(***************************************************************************)
(* The lme2 workspace server: a Project (stacks of layers, id registry,   *)
(* class registry) behind one RwLock, served by concurrent request        *)
(* handlers.  src/src/main.rs holds the handlers, src/src/utils.rs the    *)
(* two registries (UniqueValueMap, NtoN).  The layer engine (Layer,       *)
(* LayerTree) is modelled from its description in spec.md sections 3, 4.1 *)
(* and 4.2.                                                               *)
(***************************************************************************)
EXTENDS Integers, Sequences, FiniteSets, TLC

(* ------------------------------ bounds -------------------------------- *)

\* number of concurrently running request handlers
NumHandlers == 2
\* cap on the number of stacks the workspace may grow to
MaxStacks == 2
\* cap on the number of Layer values ever allocated (Arc::new)
MaxLayers == 3
\* registry indices range over 0..MaxIdx
MaxIdx == 1

Handlers == 1 .. NumHandlers
Idx == 0 .. MaxIdx
Ids == {"a", "b", "c"}
Classes == {"red", "blue"}
Props == {"x"}

(* ------------------------- transport statuses -------------------------- *)

StatusOK == 200
StatusBadRequest == 400
StatusNotFound == 404
StatusInternalServerError == 500
\* a handler that panicked sends no response at all
StatusPanicked == 0

VARIABLES
    stacks,     \* Project.stacks: Seq of addresses of the top layers
    heap,       \* the Layer values behind the Arcs, by address
    id_map,     \* Project.id_map: [map, validate]
    class_map,  \* Project.class_map: the NtoN pair set
    lock,       \* the RwLock: [writer, readers]
    pc,         \* each handler's position
    req,        \* each handler's request
    resp,       \* each handler's response, once produced
    exp,        \* export's locals: [tree, ids]
    inserted    \* history: pairs tagged and not untagged since

vars == <<stacks, heap, id_map, class_map, lock, pc, req, resp, exp, inserted>>

(* ------------------- layer engine (spec.md 3, 4.1) -------------------- *)

NoConfig == [op |-> "none", prop |-> ""]
Configs == [op : {"add", "drop"}, prop : Props]
Patches == [op : {"put", "del"}, prop : Props]
NoAddr == 0

\* Layer::default(): a root layer, no parent, no config, empty composition
DefaultLayer == [composition |-> {}, parent |-> NoAddr, config |-> NoConfig]

\* the derivation rule of Layer::overlay; Err when config refers to a
\* property the base composition does not have
OverlayOk(base, config) ==
    config.op = "add" \/ config.prop \in base.composition

Derive(comp, config) ==
    IF config.op = "add" THEN comp \cup {config.prop} ELSE comp \ {config.prop}

\* Layer::overlay(Some(base), config) on success: parent is the base
Overlay(h, addr, config) ==
    [composition |-> Derive(h[addr].composition, config),
     parent |-> addr,
     config |-> config]

\* Layer::write: Err when the patch references state the composition lacks
WriteOk(layer, patch) ==
    patch.op = "put" \/ patch.prop \in layer.composition

\* Layer::write on success: same parent and config, composition patched
Write(layer, patch) ==
    [layer EXCEPT !.composition =
        IF patch.op = "put" THEN @ \cup {patch.prop} ELSE @ \ {patch.prop}]

RECURSIVE ChainOf(_, _)
\* the addresses from the root down to addr
ChainOf(h, addr) ==
    IF h[addr].parent = NoAddr THEN <<addr>>
    ELSE Append(ChainOf(h, h[addr].parent), addr)

RootOf(h, addr) == ChainOf(h, addr)[1]

\* Layer::get_config_stack: the configs from root to tip
ConfigStack(h, addr) ==
    LET c == ChainOf(h, addr) IN [i \in 1 .. Len(c) |-> h[c[i]].config]

Prefixes(s) == {SubSeq(s, 1, n) : n \in 1 .. Len(s)}

\* LayerTree::from(layer): one chain, rooted at the layer's ultimate ancestor
TreeFrom(h, addr) ==
    LET cs == ConfigStack(h, addr) IN [root |-> cs[1], paths |-> Prefixes(cs)]

\* LayerTree::merge: Err on a root mismatch, else the chain folded in
MergeOk(tree, chain) == chain[1] = tree.root

Merge(tree, chain) == [tree EXCEPT !.paths = @ \cup Prefixes(chain)]

RECURSIVE MergeAll(_, _, _, _)
\* the loop of export_workspace over stacks[i..]: [ok, tree]
MergeAll(h, st, i, tree) ==
    IF i > Len(st) THEN [ok |-> TRUE, tree |-> tree]
    ELSE IF ~MergeOk(tree, ConfigStack(h, st[i]))
         THEN [ok |-> FALSE, tree |-> tree]
         ELSE MergeAll(h, st, i + 1, Merge(tree, ConfigStack(h, st[i])))


(* ------------------ UniqueValueMap (utils.rs 11-76) ------------------- *)

EmptyMap == [k \in {} |-> ""]

\* UniqueValueMap::new()
NewUniqueValueMap == [map |-> EmptyMap, validate |-> {}]

\* InsertResult
Created == [kind |-> "Created", arg |-> <<>>]
Updated(v) == [kind |-> "Updated", arg |-> <<v>>]
Duplicated(k) == [kind |-> "Duplicated", arg |-> <<k>>]
\* Option::unwrap on None
Panicked == [kind |-> "Panicked", arg |-> <<>>]

\* a slip: entry(k).or_insert(v), which keeps the value k already has
MapInsertKeepsOld(m, k, v) ==
    [x \in DOMAIN m \cup {k} |-> IF x \in DOMAIN m THEN m[x] ELSE v]

\* HashMap::insert
MapInsert(m, k, v) == [x \in DOMAIN m \cup {k} |-> IF x = k THEN v ELSE m[x]]

\* HashMap::remove
MapRemove(m, k) == [x \in DOMAIN m \ {k} |-> m[x]]

\* the keys find_map may stop at: HashMap iteration order is arbitrary
KeysOf(m, v) == {key \in DOMAIN m : m[key] = v}

\* a slip: the value k held before is never released from the in-use set
InsertForgetsRelease(um, k, v) ==
    IF v \in um.validate
    THEN IF KeysOf(um.map, v) = {}
         THEN {[result |-> Panicked, um |-> um]}
         ELSE {[result |-> Duplicated(key), um |-> um] : key \in KeysOf(um.map, v)}
    ELSE {[result |-> IF k \in DOMAIN um.map THEN Updated(um.map[k]) ELSE Created,
           um |-> [map |-> MapInsert(um.map, k, v),
                   validate |-> um.validate \cup {v}]]}

\* a slip: no duplicate check, the value is assigned whoever holds it
InsertWithoutCheck(um, k, v) ==
    LET inUse == um.validate \cup {v}
        had == k \in DOMAIN um.map
    IN  {[result |-> IF had THEN Updated(um.map[k]) ELSE Created,
          um |-> [map |-> MapInsert(um.map, k, v),
                  validate |-> IF had THEN inUse \ {um.map[k]} ELSE inUse]]}

\* a slip: the duplicate check skips the key's own current value
InsertAllowsOwnValue(um, k, v) ==
    IF v \in um.validate /\ ~(k \in DOMAIN um.map /\ um.map[k] = v)
    THEN IF KeysOf(um.map, v) = {}
         THEN {[result |-> Panicked, um |-> um]}
         ELSE {[result |-> Duplicated(key), um |-> um] : key \in KeysOf(um.map, v)}
    ELSE LET inUse == um.validate \cup {v}
             had == k \in DOMAIN um.map
         IN  {[result |-> IF had THEN Updated(um.map[k]) ELSE Created,
               um |-> [map |-> MapInsert(um.map, k, v),
                       validate |-> IF had THEN inUse \ {um.map[k]} ELSE inUse]]}

\* UniqueValueMap::insert: the outcomes [result, um] it may produce
Insert(um, k, v) ==
    IF v \in um.validate
    THEN IF KeysOf(um.map, v) = {}
         THEN {[result |-> Panicked, um |-> um]}
         ELSE {[result |-> Duplicated(key), um |-> um] : key \in KeysOf(um.map, v)}
    ELSE LET inUse == um.validate \cup {v}
             had == k \in DOMAIN um.map
         IN  {[result |-> IF had THEN Updated(um.map[k]) ELSE Created,
               um |-> [map |-> MapInsert(um.map, k, v),
                       validate |-> IF had THEN inUse \ {um.map[k]} ELSE inUse]]}

\* a slip: the removed value stays in validate
RemoveForgetsRelease(um, k) ==
    IF k \in DOMAIN um.map
    THEN [removed |-> <<um.map[k]>>,
          um |-> [map |-> MapRemove(um.map, k), validate |-> um.validate]]
    ELSE [removed |-> <<>>, um |-> um]

\* UniqueValueMap::remove: [removed, um], removed an Option as a sequence
Remove(um, k) ==
    IF k \in DOMAIN um.map
    THEN [removed |-> <<um.map[k]>>,
          um |-> [map |-> MapRemove(um.map, k),
                  validate |-> um.validate \ {um.map[k]}]]
    ELSE [removed |-> <<>>, um |-> um]

\* UniqueValueMap::data
Data(um) == um.map

(* ----------------------- NtoN (utils.rs 169-209) ---------------------- *)

\* NtoN::new()
NewNtoN == {}

\* NtoN::data
NtoNData(s) == s

\* a slip: the filter on the left component is missing
GetLeftUnfiltered(s, left) == {pr[2] : pr \in s}

\* NtoN::get_left: the right partners of left (a Vec in arbitrary order)
GetLeft(s, left) == {pr[2] : pr \in {q \in s : q[1] = left}}

\* NtoN::get_right
GetRight(s, right) == {pr[1] : pr \in {q \in s : q[2] = right}}

\* NtoN::insert
NtoNInsert(s, left, right) == s \cup {<<left, right>>}

\* NtoN::remove
NtoNRemove(s, left, right) == s \ {<<left, right>>}

\* remove_left that also drops the tags of the index from every other index
RemoveLeftWithTags(s, left) ==
    {q \in s : q[1] # left /\ <<left, q[2]>> \notin s}

\* NtoN::remove_left
RemoveLeft(s, left) == {q \in s : q[1] # left}

\* NtoN::remove_right
RemoveRight(s, right) == {q \in s : q[2] # right}

(* ------------------------- requests, responses ------------------------ *)

Request(op, idx, str, cfg) == [op |-> op, idx |-> idx, str |-> str, cfg |-> cfg]

NoReq == Request("none", 0, "", NoConfig)
NoResp == [status |-> -1, body |-> <<>>]
Response(status, body) == [status |-> status, body |-> body]
NoExp == [tree |-> <<>>, ids |-> <<>>]

\* stack indices a request may name; MaxStacks itself is never in range
Bases == 0 .. MaxStacks

StackReqs ==
    {Request("new_empty_stack", 0, "", NoConfig)}
    \cup {Request("overlay_to", b, "", c) : b \in Bases, c \in Configs}
    \cup {Request("write_to_layer", b, "", m) : b \in Bases, m \in Patches}

ExportReqs == {Request("export_workspace", 0, "", NoConfig)}

IdReqs ==
    {Request("set_id", i, id, NoConfig) : i \in Idx, id \in Ids}
    \cup {Request("remove_id", i, "", NoConfig) : i \in Idx}

ClassReqs ==
    {Request("set_to_group", i, c, NoConfig) : i \in Idx, c \in Classes}
    \cup {Request("remove_from_group", i, c, NoConfig) : i \in Idx, c \in Classes}
    \cup {Request("remove_from_all_group", i, "", NoConfig) : i \in Idx}
    \cup {Request("remove_group", 0, c, NoConfig) : c \in Classes}

AllocOps == {"new_empty_stack", "overlay_to", "write_to_layer"}

\* handlers whose request is started and not yet served
Pending(ops) == {p \in Handlers : pc[p] \in {"waiting", "locked"} /\ req[p].op \in ops}

(* ------------------------------- Init --------------------------------- *)

\* main: one default stack, empty registries, the lock free
Init ==
    /\ heap = <<DefaultLayer>>
    /\ stacks = <<1>>
    /\ id_map = NewUniqueValueMap
    /\ class_map = NewNtoN
    /\ lock = [writer |-> 0, readers |-> {}]
    /\ pc = [p \in Handlers |-> "idle"]
    /\ req = [p \in Handlers |-> NoReq]
    /\ resp = [p \in Handlers |-> NoResp]
    /\ exp = [p \in Handlers |-> NoExp]
    /\ inserted = {}

(* ------------------------------ the lock ------------------------------ *)

\* a request arrives at handler p; the caps keep every started request
\* within MaxLayers allocations and MaxStacks stacks
Start(p, r) ==
    /\ pc[p] = "idle"
    /\ r.op \in AllocOps =>
         Len(heap) + Cardinality(Pending(AllocOps)) < MaxLayers
    /\ r.op = "new_empty_stack" =>
         Len(stacks) + Cardinality(Pending({"new_empty_stack"})) < MaxStacks
    /\ pc' = [pc EXCEPT ![p] = "waiting"]
    /\ req' = [req EXCEPT ![p] = r]
    /\ UNCHANGED <<stacks, heap, id_map, class_map, lock, resp, exp, inserted>>

\* a slip: the handler enters without waiting for anyone, as if each request
\* had a lock of its own
AcquireWriteUnshared(p) ==
    /\ pc[p] = "waiting"
    /\ req[p].op # "export_workspace"
    /\ lock' = [lock EXCEPT !.writer = p]
    /\ pc' = [pc EXCEPT ![p] = "locked"]
    /\ UNCHANGED <<stacks, heap, id_map, class_map, req, resp, exp, inserted>>

\* a slip: the writer waits for other writers only, as if the readers took
\* no lock
AcquireWriteIgnoresReaders(p) ==
    /\ pc[p] = "waiting"
    /\ req[p].op # "export_workspace"
    /\ lock.writer = 0
    /\ lock' = [lock EXCEPT !.writer = p]
    /\ pc' = [pc EXCEPT ![p] = "locked"]
    /\ UNCHANGED <<stacks, heap, id_map, class_map, req, resp, exp, inserted>>

\* store.write().unwrap(): blocks until no reader and no writer holds it
AcquireWrite(p) ==
    /\ pc[p] = "waiting"
    /\ req[p].op # "export_workspace"
    /\ lock.writer = 0
    /\ lock.readers = {}
    /\ lock' = [lock EXCEPT !.writer = p]
    /\ pc' = [pc EXCEPT ![p] = "locked"]
    /\ UNCHANGED <<stacks, heap, id_map, class_map, req, resp, exp, inserted>>

\* store.read().unwrap(): blocks while a writer holds it
AcquireRead(p) ==
    /\ pc[p] = "waiting"
    /\ req[p].op = "export_workspace"
    /\ lock.writer = 0
    /\ lock' = [lock EXCEPT !.readers = @ \cup {p}]
    /\ pc' = [pc EXCEPT ![p] = "locked"]
    /\ UNCHANGED <<stacks, heap, id_map, class_map, req, resp, exp, inserted>>

\* a slip: the write guard is leaked (mem::forget), the lock stays taken
ReleaseWriteLeaked(p) == lock

\* the write guard is dropped
ReleaseWrite(p) == [lock EXCEPT !.writer = 0]

\* the read guard is dropped
ReleaseRead(p) == [lock EXCEPT !.readers = @ \ {p}]

\* the handler returns: the write guard drops, the request is consumed and
\* the status goes out
Finish(p, status, body) ==
    /\ lock' = ReleaseWrite(p)
    /\ pc' = [pc EXCEPT ![p] = "done"]
    /\ resp' = [resp EXCEPT ![p] = Response(status, body)]
    /\ req' = [req EXCEPT ![p] = NoReq]
    /\ UNCHANGED exp

Serving(p, op) == pc[p] = "locked" /\ req[p].op = op

\* the response has been sent; the handler is free for the next request
Return(p) ==
    /\ pc[p] = "done"
    /\ pc' = [pc EXCEPT ![p] = "idle"]
    /\ resp' = [resp EXCEPT ![p] = NoResp]
    /\ UNCHANGED <<stacks, heap, id_map, class_map, lock, req, exp, inserted>>

(* ------------------- stack handlers (main.rs 53-91) ------------------- *)

\* Arc::new(layer): the layer gets a fresh address
Alloc(h, layer) == Append(h, layer)

\* a slip: stacks.insert(0, ..), the new stack takes index 0 and shifts the
\* others
NewEmptyStackAtFront(h, st) ==
    [heap |-> Alloc(h, DefaultLayer),
     stacks |-> <<Len(h) + 1>> \o st,
     status |-> StatusOK]

\* new_empty_stack: stacks.push(Arc::new(Layer::default()))
NewEmptyStackEffect(h, st) ==
    [heap |-> Alloc(h, DefaultLayer),
     stacks |-> Append(st, Len(h) + 1),
     status |-> StatusOK]

NewEmptyStack(p) ==
    /\ Serving(p, "new_empty_stack")
    /\ LET e == NewEmptyStackEffect(heap, stacks)
       IN  /\ heap' = e.heap
           /\ stacks' = e.stacks
           /\ Finish(p, e.status, <<>>)
    /\ UNCHANGED <<id_map, class_map, inserted>>

\* stacks.get_mut(base) is Some
InRange(st, base) == base < Len(st)

\* a slip: Layer::overlay(None, config), the new layer is cut off its base
OverlayToDetached(h, st, base, config) ==
    IF InRange(st, base)
    THEN LET current == st[base + 1]
         IN  IF OverlayOk(h[current], config)
             THEN [heap |-> Alloc(h, [composition |-> Derive({}, config),
                                      parent |-> NoAddr,
                                      config |-> config]),
                   stacks |-> [st EXCEPT ![base + 1] = Len(h) + 1],
                   status |-> StatusOK]
             ELSE [heap |-> h, stacks |-> st, status |-> StatusInternalServerError]
    ELSE [heap |-> h, stacks |-> st, status |-> StatusNotFound]

\* a slip: a missing stack is created on the fly instead of answering 404
OverlayToCreatesMissing(h, st, base, config) ==
    IF InRange(st, base)
    THEN LET current == st[base + 1]
         IN  IF OverlayOk(h[current], config)
             THEN [heap |-> Alloc(h, Overlay(h, current, config)),
                   stacks |-> [st EXCEPT ![base + 1] = Len(h) + 1],
                   status |-> StatusOK]
             ELSE [heap |-> h, stacks |-> st, status |-> StatusInternalServerError]
    ELSE [heap |-> Alloc(h, DefaultLayer),
          stacks |-> Append(st, Len(h) + 1),
          status |-> StatusOK]

\* a slip: the new layer is derived on the parent of the top, replacing the
\* top instead of extending the chain
OverlayToReplacesTop(h, st, base, config) ==
    IF InRange(st, base)
    THEN LET current == st[base + 1]
         IN  IF OverlayOk(h[current], config)
             THEN [heap |-> Alloc(h, [Overlay(h, current, config)
                                        EXCEPT !.parent = h[current].parent]),
                   stacks |-> [st EXCEPT ![base + 1] = Len(h) + 1],
                   status |-> StatusOK]
             ELSE [heap |-> h, stacks |-> st, status |-> StatusInternalServerError]
    ELSE [heap |-> h, stacks |-> st, status |-> StatusNotFound]

\* overlay_to: what it leaves in the heap and the stacks, and its status
OverlayToEffect(h, st, base, config) ==
    IF InRange(st, base)
    THEN LET current == st[base + 1]
         IN  IF OverlayOk(h[current], config)
             THEN [heap |-> Alloc(h, Overlay(h, current, config)),
                   stacks |-> [st EXCEPT ![base + 1] = Len(h) + 1],
                   status |-> StatusOK]
             ELSE [heap |-> h, stacks |-> st, status |-> StatusInternalServerError]
    ELSE [heap |-> h, stacks |-> st, status |-> StatusNotFound]

OverlayTo(p) ==
    /\ Serving(p, "overlay_to")
    /\ LET e == OverlayToEffect(heap, stacks, req[p].idx, req[p].cfg)
       IN  /\ heap' = e.heap
           /\ stacks' = e.stacks
           /\ Finish(p, e.status, <<>>)
    /\ UNCHANGED <<id_map, class_map, inserted>>

\* a slip: the patch is written through the shared pointer (no clone)
WriteToLayerInPlace(h, st, base, patch) ==
    IF InRange(st, base)
    THEN LET current == st[base + 1]
         IN  IF WriteOk(h[current], patch)
             THEN [heap |-> [h EXCEPT ![current] = Write(h[current], patch)],
                   stacks |-> st,
                   status |-> StatusOK]
             ELSE [heap |-> h, stacks |-> st, status |-> StatusBadRequest]
    ELSE [heap |-> h, stacks |-> st, status |-> StatusNotFound]

\* a slip: the clone is published before the result of write is looked at
WriteToLayerPublishesFailed(h, st, base, patch) ==
    IF InRange(st, base)
    THEN LET current == st[base + 1]
             updated == h[current]
         IN  [heap |-> Alloc(h, Write(updated, patch)),
              stacks |-> [st EXCEPT ![base + 1] = Len(h) + 1],
              status |-> IF WriteOk(updated, patch)
                         THEN StatusOK ELSE StatusBadRequest]
    ELSE [heap |-> h, stacks |-> st, status |-> StatusNotFound]

\* write_to_layer: the top is cloned, the clone patched and published
WriteToLayerEffect(h, st, base, patch) ==
    IF InRange(st, base)
    THEN LET current == st[base + 1]
             updated == h[current]
         IN  IF WriteOk(updated, patch)
             THEN [heap |-> Alloc(h, Write(updated, patch)),
                   stacks |-> [st EXCEPT ![base + 1] = Len(h) + 1],
                   status |-> StatusOK]
             ELSE [heap |-> h, stacks |-> st, status |-> StatusBadRequest]
    ELSE [heap |-> h, stacks |-> st, status |-> StatusNotFound]

WriteToLayer(p) ==
    /\ Serving(p, "write_to_layer")
    /\ LET e == WriteToLayerEffect(heap, stacks, req[p].idx, req[p].cfg)
       IN  /\ heap' = e.heap
           /\ stacks' = e.stacks
           /\ Finish(p, e.status, <<>>)
    /\ UNCHANGED <<id_map, class_map, inserted>>

(* ------------------ registry handlers (main.rs 93-140) ---------------- *)

\* set_id: Duplicated(k') is answered 400 with k', anything else 200 null
SetIdResponse(result) ==
    IF result.kind = "Duplicated"
    THEN Response(StatusBadRequest, result.arg)
    ELSE Response(StatusOK, <<>>)

\* a slip: set_id looks the index up in the stacks and answers 404 when
\* there is no such stack
SetIdChecksStack(p) ==
    /\ Serving(p, "set_id")
    /\ IF InRange(stacks, req[p].idx)
       THEN \E o \in Insert(id_map, req[p].idx, req[p].str) :
               /\ id_map' = o.um
               /\ IF o.result.kind = "Panicked"
                  THEN Finish(p, StatusPanicked, <<>>)
                  ELSE Finish(p, SetIdResponse(o.result).status, SetIdResponse(o.result).body)
       ELSE /\ id_map' = id_map
            /\ Finish(p, StatusNotFound, <<>>)
    /\ UNCHANGED <<stacks, heap, class_map, inserted>>

SetId(p) ==
    /\ Serving(p, "set_id")
    /\ \E o \in Insert(id_map, req[p].idx, req[p].str) :
          /\ id_map' = o.um
          /\ IF o.result.kind = "Panicked"
             THEN Finish(p, StatusPanicked, <<>>)
             ELSE Finish(p, SetIdResponse(o.result).status, SetIdResponse(o.result).body)
    /\ UNCHANGED <<stacks, heap, class_map, inserted>>

\* remove_id that answers 404 when the index holds no id
RemoveIdNotFound(p) ==
    /\ Serving(p, "remove_id")
    /\ id_map' = Remove(id_map, req[p].idx).um
    /\ IF req[p].idx \in DOMAIN id_map.map
       THEN Finish(p, StatusOK, <<>>)
       ELSE Finish(p, StatusNotFound, <<>>)
    /\ UNCHANGED <<stacks, heap, class_map, inserted>>

RemoveId(p) ==
    /\ Serving(p, "remove_id")
    /\ id_map' = Remove(id_map, req[p].idx).um
    /\ Finish(p, StatusOK, <<>>)
    /\ UNCHANGED <<stacks, heap, class_map, inserted>>

SetToGroup(p) ==
    /\ Serving(p, "set_to_group")
    /\ class_map' = NtoNInsert(class_map, req[p].idx, req[p].str)
    /\ inserted' = inserted \cup {<<req[p].idx, req[p].str>>}
    /\ Finish(p, StatusOK, <<>>)
    /\ UNCHANGED <<stacks, heap, id_map>>

RemoveFromGroup(p) ==
    /\ Serving(p, "remove_from_group")
    /\ class_map' = NtoNRemove(class_map, req[p].idx, req[p].str)
    /\ inserted' = inserted \ {<<req[p].idx, req[p].str>>}
    /\ Finish(p, StatusOK, <<>>)
    /\ UNCHANGED <<stacks, heap, id_map>>

RemoveFromAllGroup(p) ==
    /\ Serving(p, "remove_from_all_group")
    /\ class_map' = RemoveLeft(class_map, req[p].idx)
    /\ inserted' = {q \in inserted : q[1] # req[p].idx}
    /\ Finish(p, StatusOK, <<>>)
    /\ UNCHANGED <<stacks, heap, id_map>>

RemoveGroup(p) ==
    /\ Serving(p, "remove_group")
    /\ class_map' = RemoveRight(class_map, req[p].str)
    /\ inserted' = {q \in inserted : q[2] # req[p].str}
    /\ Finish(p, StatusOK, <<>>)
    /\ UNCHANGED <<stacks, heap, id_map>>

(* --------------------- export (main.rs 142-151) ----------------------- *)

\* a slip: the read guard lives only for the merge loop and is dropped
\* before the registries are read
ExportMergeDropsGuard(p) ==
    /\ Serving(p, "export_workspace")
    /\ LET m == MergeAll(heap, stacks, 2, TreeFrom(heap, stacks[1]))
       IN  IF m.ok
           THEN /\ exp' = [exp EXCEPT ![p].tree = <<m.tree>>]
                /\ pc' = [pc EXCEPT ![p] = "ids"]
                /\ lock' = ReleaseRead(p)
                /\ UNCHANGED <<req, resp>>
           ELSE /\ lock' = ReleaseRead(p)
                /\ pc' = [pc EXCEPT ![p] = "done"]
                /\ resp' = [resp EXCEPT ![p] = Response(StatusPanicked, <<>>)]
                /\ req' = [req EXCEPT ![p] = NoReq]
                /\ UNCHANGED exp
    /\ UNCHANGED <<stacks, heap, id_map, class_map, inserted>>

\* the tree of stack 0 with every other stack merged in; .expect panics on
\* the first Err, and the unwinding drops the read guard
ExportMerge(p) ==
    /\ Serving(p, "export_workspace")
    /\ LET m == MergeAll(heap, stacks, 2, TreeFrom(heap, stacks[1]))
       IN  IF m.ok
           THEN /\ exp' = [exp EXCEPT ![p].tree = <<m.tree>>]
                /\ pc' = [pc EXCEPT ![p] = "ids"]
                /\ UNCHANGED <<lock, req, resp>>
           ELSE /\ lock' = ReleaseRead(p)
                /\ pc' = [pc EXCEPT ![p] = "done"]
                /\ resp' = [resp EXCEPT ![p] = Response(StatusPanicked, <<>>)]
                /\ req' = [req EXCEPT ![p] = NoReq]
                /\ UNCHANGED exp
    /\ UNCHANGED <<stacks, heap, id_map, class_map, inserted>>

\* let ids = store.id_map.data().clone()
ExportIds(p) ==
    /\ pc[p] = "ids"
    /\ exp' = [exp EXCEPT ![p].ids = <<Data(id_map)>>]
    /\ pc' = [pc EXCEPT ![p] = "classes"]
    /\ UNCHANGED <<stacks, heap, id_map, class_map, lock, req, resp, inserted>>

\* let classes = store.class_map.data().clone(); the triple goes out and
\* the read guard drops
ExportClasses(p) ==
    /\ pc[p] = "classes"
    /\ resp' = [resp EXCEPT ![p] =
                  Response(StatusOK, <<exp[p].tree[1], exp[p].ids[1], class_map>>)]
    /\ exp' = [exp EXCEPT ![p] = NoExp]
    /\ lock' = ReleaseRead(p)
    /\ pc' = [pc EXCEPT ![p] = "done"]
    /\ req' = [req EXCEPT ![p] = NoReq]
    /\ UNCHANGED <<stacks, heap, id_map, class_map, inserted>>

(* --------------------------- specifications --------------------------- *)

\* one request of each kind, for the specification of the whole server; the
\* stack requests address stack 0, the registry requests an index that has
\* no stack at first
SomeReqs ==
    {Request("new_empty_stack", 0, "", NoConfig),
     Request("overlay_to", 0, "", [op |-> "add", prop |-> "x"]),
     Request("write_to_layer", 0, "", [op |-> "put", prop |-> "x"]),
     Request("set_id", MaxIdx, "a", NoConfig),
     Request("remove_id", MaxIdx, "", NoConfig),
     Request("set_to_group", MaxIdx, "red", NoConfig),
     Request("remove_from_group", MaxIdx, "red", NoConfig),
     Request("remove_from_all_group", MaxIdx, "", NoConfig),
     Request("remove_group", 0, "red", NoConfig),
     Request("export_workspace", 0, "", NoConfig)}

\* the whole server
Next ==
    \E p \in Handlers :
        \/ \E r \in SomeReqs : Start(p, r)
        \/ AcquireWrite(p)
        \/ AcquireRead(p)
        \/ NewEmptyStack(p)
        \/ OverlayTo(p)
        \/ WriteToLayer(p)
        \/ SetId(p)
        \/ RemoveId(p)
        \/ SetToGroup(p)
        \/ RemoveFromGroup(p)
        \/ RemoveFromAllGroup(p)
        \/ RemoveGroup(p)
        \/ ExportMerge(p)
        \/ ExportIds(p)
        \/ ExportClasses(p)
        \/ Return(p)

Spec == Init /\ [][Next]_vars

\* the id registry alone
NextIds ==
    \E p \in Handlers :
        \/ \E r \in IdReqs : Start(p, r)
        \/ AcquireWrite(p)
        \/ SetId(p)
        \/ RemoveId(p)
        \/ Return(p)

SpecIds == Init /\ [][NextIds]_vars

\* the class registry alone
NextClasses ==
    \E p \in Handlers :
        \/ \E r \in ClassReqs : Start(p, r)
        \/ AcquireWrite(p)
        \/ SetToGroup(p)
        \/ RemoveFromGroup(p)
        \/ RemoveFromAllGroup(p)
        \/ RemoveGroup(p)
        \/ Return(p)

SpecClasses == Init /\ [][NextClasses]_vars

\* the stacks and export
NextStacks ==
    \E p \in Handlers :
        \/ \E r \in StackReqs \cup ExportReqs : Start(p, r)
        \/ AcquireWrite(p)
        \/ AcquireRead(p)
        \/ NewEmptyStack(p)
        \/ OverlayTo(p)
        \/ WriteToLayer(p)
        \/ ExportMerge(p)
        \/ ExportIds(p)
        \/ ExportClasses(p)
        \/ Return(p)

SpecStacks == Init /\ [][NextStacks]_vars

\* both registries, the requests arriving one after the other
NextRegistries ==
    \E p \in Handlers :
        \/ /\ \A q \in Handlers : pc[q] = "idle"
           /\ \E r \in IdReqs \cup ClassReqs : Start(p, r)
        \/ AcquireWrite(p)
        \/ SetId(p)
        \/ RemoveId(p)
        \/ SetToGroup(p)
        \/ RemoveFromGroup(p)
        \/ RemoveFromAllGroup(p)
        \/ RemoveGroup(p)
        \/ Return(p)

SpecRegistries == Init /\ [][NextRegistries]_vars

\* the whole server, the requests arriving one after the other
NextSequential ==
    \E p \in Handlers :
        \/ /\ \A q \in Handlers : pc[q] = "idle"
           /\ \E r \in SomeReqs : Start(p, r)
        \/ AcquireWrite(p)
        \/ AcquireRead(p)
        \/ NewEmptyStack(p)
        \/ OverlayTo(p)
        \/ WriteToLayer(p)
        \/ SetId(p)
        \/ RemoveId(p)
        \/ SetToGroup(p)
        \/ RemoveFromGroup(p)
        \/ RemoveFromAllGroup(p)
        \/ RemoveGroup(p)
        \/ ExportMerge(p)
        \/ ExportIds(p)
        \/ ExportClasses(p)
        \/ Return(p)

SpecSequential == Init /\ [][NextSequential]_vars

\* an export against one mutation of each part of the workspace
SnapshotReqs ==
    {Request("export_workspace", 0, "", NoConfig),
     Request("overlay_to", 0, "", [op |-> "add", prop |-> "x"]),
     Request("set_id", MaxIdx, "a", NoConfig),
     Request("set_to_group", MaxIdx, "red", NoConfig)}

NextSnapshot ==
    \E p \in Handlers :
        \/ \E r \in SnapshotReqs : Start(p, r)
        \/ AcquireWrite(p)
        \/ AcquireRead(p)
        \/ OverlayTo(p)
        \/ SetId(p)
        \/ SetToGroup(p)
        \/ ExportMerge(p)
        \/ ExportIds(p)
        \/ ExportClasses(p)
        \/ Return(p)

SpecSnapshot == Init /\ [][NextSnapshot]_vars

\* requests that contend: overlays on one stack, one id for two indices
ContendedReqs ==
    {Request("overlay_to", 0, "", [op |-> "add", prop |-> "x"]),
     Request("overlay_to", 0, "", [op |-> "drop", prop |-> "x"]),
     Request("set_id", 0, "a", NoConfig),
     Request("set_id", 1, "a", NoConfig)}

NextContended ==
    \E p \in Handlers :
        \/ \E r \in ContendedReqs : Start(p, r)
        \/ AcquireWrite(p)
        \/ OverlayTo(p)
        \/ SetId(p)
        \/ Return(p)

SpecContended == Init /\ [][NextContended]_vars

\* requests of every outcome: an export, an overlay that fails to derive
\* (500), an overlay on a missing stack (404), a patch (200, 400 never), an
\* id assignment (200, then 400)
LiveReqs ==
    {Request("export_workspace", 0, "", NoConfig),
     Request("overlay_to", 0, "", [op |-> "drop", prop |-> "x"]),
     Request("overlay_to", MaxStacks, "", [op |-> "add", prop |-> "x"]),
     Request("write_to_layer", 0, "", [op |-> "put", prop |-> "x"]),
     Request("set_id", 0, "a", NoConfig)}

\* a step of handler p after its request has started
LiveStep(p) ==
    \/ AcquireWrite(p)
    \/ AcquireRead(p)
    \/ OverlayTo(p)
    \/ WriteToLayer(p)
    \/ SetId(p)
    \/ ExportMerge(p)
    \/ ExportIds(p)
    \/ ExportClasses(p)
    \/ Return(p)

NextLive ==
    \E p \in Handlers :
        \/ \E r \in LiveReqs : Start(p, r)
        \/ LiveStep(p)

\* a handler that can take its next step for good takes it; requests arrive
\* as they please; RwLock promises no order among those that wait for it
Fairness ==
    \A p \in Handlers :
        /\ WF_vars(AcquireWrite(p))
        /\ WF_vars(AcquireRead(p))
        /\ WF_vars(OverlayTo(p))
        /\ WF_vars(WriteToLayer(p))
        /\ WF_vars(SetId(p))
        /\ WF_vars(ExportMerge(p))
        /\ WF_vars(ExportIds(p))
        /\ WF_vars(ExportClasses(p))
        /\ WF_vars(Return(p))

SpecLive == Init /\ [][NextLive]_vars /\ Fairness

(* ------------------------------ properties ---------------------------- *)

\* handler p serves a request of kind op in this step
Serves(p, op) == pc[p] = "locked" /\ req[p].op = op /\ pc'[p] = "done"

\* the values of a map
Values(m) == {m[k] : k \in DOMAIN m}

\* C1: after any sequence of insert and remove calls on the id registry, no
\* two keys map to the same value, and the in-use set (validate) is exactly
\* the set of values of the mapping data() returns.
C1_Bijection ==
    /\ \A k1, k2 \in DOMAIN Data(id_map) :
          Data(id_map)[k1] = Data(id_map)[k2] => k1 = k2
    /\ id_map.validate = Values(Data(id_map))

\* every index holds an id, each a different one
C1_Witness ==
    /\ DOMAIN Data(id_map) = Idx
    /\ Cardinality(id_map.validate) = Cardinality(Idx)

\* C2: insert(k, v) while another key k2 holds v returns Duplicated(k2) and
\* changes neither the mapping nor the in-use set; set_id answers 400 with
\* body k2.
C2_DuplicateRejection ==
    [][\A p \in Handlers : \A k2 \in DOMAIN id_map.map :
          (/\ Serves(p, "set_id")
           /\ k2 # req[p].idx
           /\ id_map.map[k2] = req[p].str)
          => /\ \A o \in Insert(id_map, req[p].idx, req[p].str) :
                   o.result = Duplicated(k2) /\ o.um = id_map
             /\ id_map' = id_map
             /\ resp'[p] = Response(StatusBadRequest, <<k2>>)]_vars

\* set_id(k, v) is being served while another index k2 holds v and k holds
\* an id of its own
C2_Witness ==
    \E p \in Handlers : \E k2 \in DOMAIN id_map.map :
        /\ Serving(p, "set_id")
        /\ k2 # req[p].idx
        /\ id_map.map[k2] = req[p].str
        /\ req[p].idx \in DOMAIN id_map.map

\* C3: insert(k, v2) with v2 not in use returns Updated(v1) when k maps to
\* v1 and Created when k is unmapped; afterwards k maps to v2, v2 is in use,
\* v1 is not, and every other key is as before.
C3_UpdateSemantics ==
    [][\A p \in Handlers :
          (Serves(p, "set_id") /\ req[p].str \notin id_map.validate)
          => LET k == req[p].idx
                 v2 == req[p].str
                 had == k \in DOMAIN id_map.map
             IN  /\ Insert(id_map, k, v2) # {}
                 /\ \A o \in Insert(id_map, k, v2) :
                       o.result = IF had THEN Updated(id_map.map[k]) ELSE Created
                 /\ k \in DOMAIN id_map'.map
                 /\ id_map'.map[k] = v2
                 /\ v2 \in id_map'.validate
                 /\ had => id_map.map[k] \notin id_map'.validate
                 /\ \A j \in Idx \ {k} :
                       /\ j \in DOMAIN id_map'.map <=> j \in DOMAIN id_map.map
                       /\ j \in DOMAIN id_map.map => id_map'.map[j] = id_map.map[j]
                 /\ resp'[p] = Response(StatusOK, <<>>)]_vars

\* set_id(k, v2) is being served while k holds another id, v2 is free and
\* some other index holds an id too
C3_Witness ==
    \E p \in Handlers :
        /\ Serving(p, "set_id")
        /\ req[p].idx \in DOMAIN id_map.map
        /\ req[p].str \notin id_map.validate
        /\ DOMAIN id_map.map # {req[p].idx}

\* C4: the duplicate check is across all keys: insert(k, v) returns
\* Duplicated(k2) and changes nothing whenever any key k2 holds v, k itself
\* included, so giving an index the id it already has is answered 400 with
\* that same index.
C4_CheckAcrossAllKeys ==
    [][\A p \in Handlers :
          (Serves(p, "set_id") /\ req[p].str \in Values(id_map.map))
          => /\ \E k2 \in DOMAIN id_map.map :
                   /\ id_map.map[k2] = req[p].str
                   /\ Insert(id_map, req[p].idx, req[p].str)
                        = {[result |-> Duplicated(k2), um |-> id_map]}
                   /\ resp'[p] = Response(StatusBadRequest, <<k2>>)
             /\ id_map' = id_map
             /\ (req[p].idx \in DOMAIN id_map.map
                   /\ id_map.map[req[p].idx] = req[p].str)
                => resp'[p] = Response(StatusBadRequest, <<req[p].idx>>)]_vars

\* set_id(k, v) is being served while k itself holds v
C4_Witness ==
    \E p \in Handlers :
        /\ Serving(p, "set_id")
        /\ req[p].idx \in DOMAIN id_map.map
        /\ id_map.map[req[p].idx] = req[p].str

\* the root layer of stack i (1-based position in stacks)
RootLayer(i) == heap[RootOf(heap, stacks[i])]

\* export's merge loop succeeds on the current stacks
ExportMerges == MergeAll(heap, stacks, 2, TreeFrom(heap, stacks[1])).ok

C6_CopyOnWrite ==
    [][\A a \in 1 .. Len(heap) : a <= Len(heap') /\ heap'[a] = heap[a]]_vars

\* a patched stack: its former top is still in the heap with the
\* composition it had, beside the new top of the same parent and config
C6_Witness ==
    \E i \in 1 .. Len(stacks) : \E a \in 1 .. Len(heap) :
        /\ a # stacks[i]
        /\ heap[a].parent = heap[stacks[i]].parent
        /\ heap[a].config = heap[stacks[i]].config
        /\ heap[a].composition # heap[stacks[i]].composition
        /\ \A j \in 1 .. Len(stacks) : stacks[j] # a

InWrite(p) == pc[p] = "locked" /\ req[p].op # "export_workspace"

InRead(p) ==
    IF pc[p] = "locked" THEN req[p].op = "export_workspace"
    ELSE pc[p] \in {"ids", "classes"}

\* C7: while a mutating operation is inside its locked section no other
\* mutating operation and no export is inside its own; an export that waits
\* while only exports are inside, and no mutating request is waiting, can
\* enter at once.
C7_ReaderWriterExclusion ==
    /\ \A p, q \in Handlers :
          (InWrite(p) /\ (InWrite(q) \/ InRead(q))) => p = q
    /\ \A p \in Handlers : InWrite(p) <=> lock.writer = p
    /\ \A p \in Handlers : InRead(p) <=> p \in lock.readers
    /\ \A q \in Handlers :
          (/\ pc[q] = "waiting" /\ req[q].op = "export_workspace"
           /\ \A p \in Handlers :
                 ~InWrite(p) /\ (pc[p] = "waiting" => req[p].op = "export_workspace"))
          => ENABLED AcquireRead(q)

\* every handler is inside the locked section of an export at once
C7_Witness ==
    /\ \A p \in Handlers : InRead(p)
    /\ \E p \in Handlers : pc[p] = "ids"

\* C8: overlay or patch on a stack index that is out of range answers 404
\* and leaves the stacks, their layers and both registries unchanged.
C8_IndexNotFound ==
    [][\A p \in Handlers :
          (/\ Serves(p, "overlay_to") \/ Serves(p, "write_to_layer")
           /\ req[p].idx >= Len(stacks))
          => /\ resp'[p] = Response(StatusNotFound, <<>>)
             /\ UNCHANGED <<stacks, heap, id_map, class_map>>]_vars

\* a request was answered 404 in a workspace of more than one stack
C8_Witness ==
    \E p \in Handlers :
        /\ pc[p] = "done"
        /\ resp[p].status = StatusNotFound
        /\ Len(stacks) >= 2

\* C9: an overlay on an existing stack that fails in derivation answers 500,
\* a patch on an existing stack that fails in application answers 400, and
\* either leaves the stack's top pointer and all other workspace state as
\* they were; neither answer is the 404 of a failed lookup.
C9_FailedMutationPublishesNothing ==
    [][\A p \in Handlers :
          /\ (/\ Serves(p, "overlay_to")
              /\ req[p].idx < Len(stacks)
              /\ ~OverlayOk(heap[stacks[req[p].idx + 1]], req[p].cfg))
             => /\ resp'[p] = Response(StatusInternalServerError, <<>>)
                /\ UNCHANGED <<stacks, heap, id_map, class_map>>
          /\ (/\ Serves(p, "write_to_layer")
              /\ req[p].idx < Len(stacks)
              /\ ~WriteOk(heap[stacks[req[p].idx + 1]], req[p].cfg))
             => /\ resp'[p] = Response(StatusBadRequest, <<>>)
                /\ UNCHANGED <<stacks, heap, id_map, class_map>>
          /\ (Serves(p, "overlay_to") \/ Serves(p, "write_to_layer"))
             => (resp'[p].status = StatusNotFound <=> req[p].idx >= Len(stacks))]_vars

\* one request has been answered 500 and another 400
C9_Witness ==
    \E p, q \in Handlers :
        /\ pc[p] = "done" /\ resp[p].status = StatusInternalServerError
        /\ pc[q] = "done" /\ resp[q].status = StatusBadRequest

\* C10: get_left(l) contains r and get_right(r) contains l exactly for the
\* pairs (l, r) inserted and not removed since (by remove, remove_left(l) or
\* remove_right(r)), and a partner is returned only if that exact pair is in
\* the set.
C10_RelationSymmetry ==
    \A l \in Idx : \A r \in Classes :
        /\ <<l, r>> \in inserted <=> r \in GetLeft(class_map, l)
        /\ <<l, r>> \in inserted <=> l \in GetRight(class_map, r)
        /\ r \in GetLeft(class_map, l) <=> <<l, r>> \in NtoNData(class_map)
        /\ l \in GetRight(class_map, r) <=> <<l, r>> \in NtoNData(class_map)

\* one index carries two classes, one of them shared with another index,
\* and a pair is absent
C10_Witness ==
    \E l1, l2 \in Idx : \E r1, r2 \in Classes :
        /\ l1 # l2 /\ r1 # r2
        /\ GetLeft(class_map, l1) = {r1, r2}
        /\ GetRight(class_map, r1) = {l1, l2}
        /\ <<l2, r2>> \notin NtoNData(class_map)

\* C11: remove_left(l) (untag index l from all classes) removes every pair
\* whose left component is l and leaves every pair with another left
\* component as it was, the pairs of other indices carrying the same tags
\* included; symmetrically remove_right(r) (remove class r) removes exactly
\* the pairs whose right component is r.
C11_RemoveFrame ==
    [][\A p \in Handlers :
          /\ Serves(p, "remove_from_all_group")
             => \A l \in Idx : \A r \in Classes :
                   <<l, r>> \in class_map'
                   <=> (<<l, r>> \in class_map /\ l # req[p].idx)
          /\ Serves(p, "remove_group")
             => \A l \in Idx : \A r \in Classes :
                   <<l, r>> \in class_map'
                   <=> (<<l, r>> \in class_map /\ r # req[p].str)]_vars

\* index l is being untagged from all classes while it carries two tags and
\* another index carries one of them
C11_Witness ==
    \E p \in Handlers : \E r1, r2 \in Classes : \E l2 \in Idx :
        /\ Serving(p, "remove_from_all_group")
        /\ r1 # r2
        /\ l2 # req[p].idx
        /\ {<<req[p].idx, r1>>, <<req[p].idx, r2>>, <<l2, r1>>} \subseteq class_map

\* C12: a removal whose addressed entry is absent (remove the id of an index
\* that has none, untag a pair that is not tagged, untag an index without
\* tags, remove a class nobody carries) answers 200 and leaves the id
\* registry, the tag registry and the stacks as they were; and after any
\* removal the same removal applied again changes nothing, so twice in a row
\* ends in the same state as once.
C12_RemovalsTotalIdempotent ==
    [][\A p \in Handlers :
          LET k == req[p].idx
              c == req[p].str
              unchanged == /\ resp'[p] = Response(StatusOK, <<>>)
                           /\ UNCHANGED <<id_map, class_map, stacks, heap>>
          IN  /\ Serves(p, "remove_id")
                 => /\ k \notin DOMAIN Data(id_map) => unchanged
                    /\ Remove(id_map', k).um = id_map'
                    /\ Remove(id_map', k).removed = <<>>
              /\ Serves(p, "remove_from_group")
                 => /\ <<k, c>> \notin NtoNData(class_map) => unchanged
                    /\ NtoNRemove(class_map', k, c) = class_map'
              /\ Serves(p, "remove_from_all_group")
                 => /\ GetLeft(class_map, k) = {} => unchanged
                    /\ RemoveLeft(class_map', k) = class_map'
              /\ Serves(p, "remove_group")
                 => /\ GetRight(class_map, c) = {} => unchanged
                    /\ RemoveRight(class_map', c) = class_map']_vars

\* a pair that is not tagged is being untagged while its index carries
\* another class, its class is carried by another index, and an id is
\* registered
C12_Witness ==
    \E p \in Handlers : \E l2 \in Idx : \E r2 \in Classes :
        /\ Serving(p, "remove_from_group")
        /\ <<req[p].idx, req[p].str>> \notin class_map
        /\ <<req[p].idx, r2>> \in class_map
        /\ <<l2, req[p].str>> \in class_map
        /\ DOMAIN Data(id_map) # {}

\* handler p succeeds with a request of kind op on stack number i (1-based)
SucceedsOn(p, op, i) ==
    /\ Serves(p, op)
    /\ req[p].idx + 1 = i
    /\ resp'[p].status = StatusOK

\* C14: a successful overlay on stack i publishes a new top whose parent is
\* the previous top, so the chain is the previous chain plus the new top
\* (length + 1); a successful patch publishes a new top with the parent and
\* config of the previous top (length unchanged); no other step changes the
\* top or the chain length of stack i, in particular no operation on
\* another stack. Every stack starts with a chain of length 1 (initially and
\* when created), so its chain length is 1 + the number of successful
\* overlays on it.
C14_ChainShape ==
    /\ \A i \in 1 .. Len(stacks) : Len(ChainOf(heap, stacks[i])) = 1
    /\ [][\A i \in 1 .. Len(stacks') :
             LET new == stacks'[i]
                 fresh == i > Len(stacks)
                 overlaid == \E p \in Handlers : SucceedsOn(p, "overlay_to", i)
                 patched == \E p \in Handlers : SucceedsOn(p, "write_to_layer", i)
             IN  /\ fresh => Len(ChainOf(heap', new)) = 1
                 /\ (~fresh /\ overlaid)
                    => /\ new # stacks[i]
                       /\ heap'[new].parent = stacks[i]
                       /\ ChainOf(heap', new) = Append(ChainOf(heap, stacks[i]), new)
                 /\ (~fresh /\ patched)
                    => /\ new # stacks[i]
                       /\ heap'[new].parent = heap[stacks[i]].parent
                       /\ heap'[new].config = heap[stacks[i]].config
                       /\ Len(ChainOf(heap', new)) = Len(ChainOf(heap, stacks[i]))
                 /\ (~fresh /\ ~overlaid /\ ~patched)
                    => /\ new = stacks[i]
                       /\ ChainOf(heap', new) = ChainOf(heap, stacks[i])]_vars

\* a stack has been overlaid and its new top patched since: the top has a
\* parent and a composition other than the one the overlay derived
C14_Witness ==
    \E i \in 1 .. Len(stacks) :
        LET top == heap[stacks[i]]
        IN  /\ top.parent # NoAddr
            /\ ChainOf(heap, stacks[i]) = <<top.parent, stacks[i]>>
            /\ top.composition # Derive(heap[top.parent].composition, top.config)

\* C15: from the moment an export holds the lock until it releases it no
\* step changes the stacks, their layers or either registry, and the triple
\* it returns is the merged tree, the id mapping and the tag pairs of the
\* one workspace state it is in when it answers.
C15_ConsistentSnapshot ==
    [][\A p \in Handlers :
          /\ InRead(p) => UNCHANGED <<stacks, heap, id_map, class_map>>
          /\ (InRead(p) /\ pc'[p] = "done" /\ ExportMerges)
             => resp'[p] =
                  Response(StatusOK,
                           <<MergeAll(heap, stacks, 2, TreeFrom(heap, stacks[1])).tree,
                             Data(id_map),
                             NtoNData(class_map)>>)]_vars

\* an export has answered with a tree of more than one layer, an id and a
\* tag pair while a mutating request is waiting for the lock
C15_Witness ==
    \E p, q \in Handlers :
        /\ pc[p] = "done"
        /\ resp[p].status = StatusOK
        /\ Len(resp[p].body) = 3
        /\ Cardinality(resp[p].body[1].paths) > 1
        /\ DOMAIN resp[p].body[2] # {}
        /\ resp[p].body[3] # {}
        /\ pc[q] = "waiting"
        /\ req[q].op # "export_workspace"

\* C16: mutations take effect one at a time in the order in which they get
\* the lock: from the step a mutating handler gets the lock to its own
\* serving step nothing changes the workspace, and the serving step is the
\* operation applied to the workspace as it then is, result included. So an
\* overlay extends the chain as left by every overlay that got the lock
\* before it (no lost update), and an assignment of an id succeeds exactly
\* when no index holds the id at its turn: of two assignments of one id to
\* two indices the first to get the lock succeeds and the other is answered
\* 400 with the index of the first.
C16_Linearizable ==
    [][\A p \in Handlers :
          LET k == req[p].idx
              v == req[p].str
              e == OverlayToEffect(heap, stacks, k, req[p].cfg)
          IN  /\ (InWrite(p) /\ pc'[p] # "done")
                 => UNCHANGED <<stacks, heap, id_map, class_map>>
              /\ Serves(p, "overlay_to")
                 => /\ heap' = e.heap /\ stacks' = e.stacks
                    /\ resp'[p] = Response(e.status, <<>>)
                    /\ e.status = StatusOK
                       => ChainOf(heap', stacks'[k + 1])
                            = Append(ChainOf(heap, stacks[k + 1]), stacks'[k + 1])
              /\ Serves(p, "set_id")
                 => IF v \in Values(id_map.map)
                    THEN /\ \E k2 \in DOMAIN id_map.map :
                               /\ id_map.map[k2] = v
                               /\ resp'[p] = Response(StatusBadRequest, <<k2>>)
                         /\ id_map' = id_map
                    ELSE /\ resp'[p] = Response(StatusOK, <<>>)
                         /\ id_map'.map[k] = v
                         /\ Values(id_map'.map) = {v}]_vars

\* two overlays that waited for the lock together are both in the chain of
\* the stack, and of two assignments of one id the second is being served
\* while the index of the first holds the id and its answer is still out
C16_Witness ==
    \E p, q \in Handlers : \E k2 \in DOMAIN id_map.map :
        /\ Len(ChainOf(heap, stacks[1])) = 3
        /\ Serving(p, "set_id")
        /\ k2 # req[p].idx
        /\ id_map.map[k2] = req[p].str
        /\ pc[q] = "done"
        /\ resp[q] = Response(StatusOK, <<>>)

\* C17: remove(k) returns the value k mapped to (nothing when k is
\* unmapped), removes the mapping of k and of no other key, and takes the
\* value out of the in-use set, so that an insert of the value for any key
\* right after is accepted (Created or Updated) and not Duplicated.
C17_RemoveReleases ==
    [][\A p \in Handlers :
          Serves(p, "remove_id")
          => LET k == req[p].idx
                 had == k \in DOMAIN id_map.map
                 r == Remove(id_map, k)
             IN  /\ r.removed = IF had THEN <<id_map.map[k]>> ELSE <<>>
                 /\ id_map' = r.um
                 /\ k \notin DOMAIN id_map'.map
                 /\ \A j \in Idx \ {k} :
                       /\ j \in DOMAIN id_map'.map <=> j \in DOMAIN id_map.map
                       /\ j \in DOMAIN id_map.map => id_map'.map[j] = id_map.map[j]
                 /\ had
                    => /\ id_map.map[k] \notin id_map'.validate
                       /\ \A k2 \in Idx :
                             /\ Insert(id_map', k2, id_map.map[k]) # {}
                             /\ \A o \in Insert(id_map', k2, id_map.map[k]) :
                                   o.result.kind \in {"Created", "Updated"}
                 /\ resp'[p] = Response(StatusOK, <<>>)]_vars

\* the id of index k is being removed while another index holds an id too
C17_Witness ==
    \E p \in Handlers : \E j \in DOMAIN id_map.map :
        /\ Serving(p, "remove_id")
        /\ req[p].idx \in DOMAIN id_map.map
        /\ j # req[p].idx

\* C18: an id or tag operation changes neither the number of stacks nor any
\* stack's top or layer and is not refused for its index, whether a stack
\* with that index exists or not (set_id answers 200, or 400 for an id in
\* use, the others 200); create stack, overlay and patch change neither
\* registry; an id operation does not change the tag registry and a tag
\* operation does not change the id registry.
C18_Decoupled ==
    [][\A p \in Handlers :
          /\ Serves(p, "set_id")
             => /\ UNCHANGED <<stacks, heap, class_map>>
                /\ resp'[p].status =
                     IF req[p].str \in id_map.validate THEN StatusBadRequest ELSE StatusOK
          /\ Serves(p, "remove_id")
             => /\ UNCHANGED <<stacks, heap, class_map>>
                /\ resp'[p].status = StatusOK
          /\ \/ Serves(p, "set_to_group")
             \/ Serves(p, "remove_from_group")
             \/ Serves(p, "remove_from_all_group")
             \/ Serves(p, "remove_group")
             => /\ UNCHANGED <<stacks, heap, id_map>>
                /\ resp'[p].status = StatusOK
          /\ \/ Serves(p, "new_empty_stack")
             \/ Serves(p, "overlay_to")
             \/ Serves(p, "write_to_layer")
             => UNCHANGED <<id_map, class_map>>]_vars

\* an id is being assigned to an index that has no stack, after an overlay
\* or patch on stack 0 and while the index carries a tag
C18_Witness ==
    \E p \in Handlers :
        /\ Serving(p, "set_id")
        /\ ~InRange(stacks, req[p].idx)
        /\ heap[stacks[1]] # DefaultLayer
        /\ GetLeft(class_map, req[p].idx) # {}

\* C19: the workspace starts with one stack; create stack always answers
\* 200 and appends one stack, a root-only default layer, behind the others,
\* whose indices and tops stay as they are; no other step changes the number
\* of stacks. So there is always at least one stack, stack 0 exists whenever
\* an export reads it, and an index once in range stays in range.
C19_StacksOnlyGrow ==
    /\ Len(stacks) = 1
    /\ [][/\ \A p \in Handlers :
                Serves(p, "new_empty_stack")
                => /\ resp'[p] = Response(StatusOK, <<>>)
                   /\ Len(stacks') = Len(stacks) + 1
                   /\ SubSeq(stacks', 1, Len(stacks)) = stacks
                   /\ stacks'[Len(stacks')] \notin DOMAIN heap
                   /\ heap'[stacks'[Len(stacks')]] = DefaultLayer
          /\ (\A p \in Handlers : ~Serves(p, "new_empty_stack"))
             => Len(stacks') = Len(stacks)
          /\ \A base \in Bases : InRange(stacks, base) => InRange(stacks', base)
          /\ InRange(stacks', 0)
          /\ \A p \in Handlers :
                Serving(p, "export_workspace") => InRange(stacks, 0)]_vars

\* a second stack has been created behind stack 0, which had been overlaid;
\* the new stack is a root-only default layer
C19_Witness ==
    /\ Len(stacks) = 2
    /\ heap[stacks[2]] = DefaultLayer
    /\ heap[stacks[1]].parent # NoAddr

\* handler p holds the lock
Inside(p) == InWrite(p) \/ InRead(p)

\* C20 as claimed: under fair scheduling every request that starts gets the
\* lock, finishes and releases it.
C20_EveryRequestCompletes ==
    \A p \in Handlers : (pc[p] = "waiting") ~> (pc[p] = "done")

\* C20 as amended: no reachable state is a deadlock (while a request is in
\* flight some handler can step); a handler that answers holds the lock no
\* longer; under weakly fair scheduling every handler that has the lock
\* finishes and releases it, and while requests wait some request is
\* answered. That each single waiting request gets the lock is not implied:
\* the lock promises no order among those that wait.
C20_Progress ==
    /\ []((\E p \in Handlers : pc[p] # "idle")
          => \E q \in Handlers : ENABLED LiveStep(q))
    /\ [](\A p \in Handlers :
             pc[p] \in {"idle", "waiting", "done"}
             => lock.writer # p /\ p \notin lock.readers)
    /\ \A p \in Handlers : Inside(p) ~> (pc[p] = "done")
    /\ (\E p \in Handlers : pc[p] = "waiting")
          ~> (\E q \in Handlers : pc[q] = "done")

\* a mutating request waits for the lock while an export holds it
C20_Witness ==
    \E p, q \in Handlers :
        /\ pc[p] = "waiting"
        /\ req[p].op # "export_workspace"
        /\ InRead(q)
        /\ ~ENABLED AcquireWrite(p)

============================================================================
